---- MODULE Spec2Model ----
(***************************************************************************)
(* paperpauper: the content loader get_pdf_markdown (src/get_content.py)    *)
(* and the script around it (src/summarize.py).                            *)
(* The model follows the function statement by statement: the loop over    *)
(* the URLs, the cache lookup, the bounded retry loop with its three       *)
(* except clauses, and the JSON cache file written by json.dump and read   *)
(* back by json.load.  The cache directory outlives a call, so a behaviour *)
(* is a sequence of calls (process runs) over one cache.                   *)
(***************************************************************************)
EXTENDS Naturals, Sequences, FiniteSets, TLC

VARIABLES
    cache,      \* the cache directory: cache file name -> file content, or NoFile
    cache_dir,  \* TRUE once the cache directory exists
    calls,      \* number of calls of get_pdf_markdown made so far
    urls,       \* argument of the current call
    idx,        \* position of `for url in urls` (0 before the first URL)
    results,    \* the list being built
    pc,         \* control point of the current call
    attempt,    \* loop variable of `for attempt in range(max_retries)`
    markdown,   \* the local variable holding partition_file's result
    state,      \* state of the current URL in the per-URL state machine
    nfetch,     \* requests.get calls made for the current URL
    nconv,      \* partition_file calls made for the current URL
    delays,     \* the time.sleep arguments of the current URL, in order
    outs,       \* how each attempt of the current URL ended: <<stage, outcome>>
    cache0,     \* the cache directory as it was when the current URL was taken up
    written,    \* cache file name -> the markdown values whose write completed
    ends,       \* how each URL of the call ended, one entry per record appended
    prompts,    \* the prompts sent to the LLM by summarizer(texts), in order
    summaries,  \* the records PaperSummarizer.parse produced, in order
    argv,       \* the values of the --pdf occurrences on the command line
    args_pdf,   \* args.pdf after parser.parse_args()
    pdf_urls    \* the list handed to get_pdf_markdown by the script

vars == << cache, cache_dir, calls, urls, idx, results, pc, attempt, markdown,
           state, nfetch, nconv, delays, outs, cache0, written, ends,
           prompts, summaries, argv, args_pdf, pdf_urls >>

(* The state of the loader, of the summarizer and of the command line.     *)
loader == << cache, cache_dir, calls, urls, idx, results, attempt, markdown,
             state, nfetch, nconv, delays, outs, cache0, written, ends >>

driver == << prompts, summaries >>

cli == << argv, args_pdf, pdf_urls >>

----------------------------------------------------------------------------
(* Bounds of the model.                                                    *)

MaxUrls == 2

MaxCalls == 2

MaxFlags == 2

(* Program constants.                                                      *)

max_retries == 3

retry_delay == 1

----------------------------------------------------------------------------
(* Text.  A string is a sequence of characters.                            *)

DQ == "\""

BS == "\\"

URLS == { <<"x">>, <<"y">> }

(* What partition_file may return for a document: text with the characters *)
(* JSON has to escape, and the empty text of a blank document.             *)
Markdowns == { <<>>, <<"a", DQ>>, <<BS, "a">> }

(* The content of a file is a sequence of single characters; NoFile is the  *)
(* value of a name with no file, which no content equals.                  *)
NoFile == <<"ENOENT">>

EMPTY == <<>>

RECURSIVE Concat(_)
Concat(chunks) ==
    IF chunks = <<>> THEN <<>> ELSE Head(chunks) \o Concat(Tail(chunks))

(* str.strip(): leading and trailing whitespace removed.                   *)
WHITESPACE == {" ", "\t", "\n"}

RECURSIVE lstrip(_)
lstrip(s) ==
    IF s # <<>> /\ Head(s) \in WHITESPACE THEN lstrip(Tail(s)) ELSE s

RECURSIVE rstrip(_)
rstrip(s) ==
    IF s # <<>> /\ s[Len(s)] \in WHITESPACE
    THEN rstrip(SubSeq(s, 1, Len(s) - 1)) ELSE s

strip(s) == rstrip(lstrip(s))

(* str.split(sep) for a one-character sep: the pieces between the          *)
(* separators, empty pieces included.                                      *)
RECURSIVE split(_, _)
split(s, sep) ==
    IF \E i \in 1..Len(s) : s[i] = sep
    THEN LET i == CHOOSE k \in 1..Len(s) :
                     s[k] = sep /\ \A n \in 1..(k - 1) : s[n] # sep
         IN  <<SubSeq(s, 1, i - 1)>> \o split(SubSeq(s, i + 1, Len(s)), sep)
    ELSE <<s>>

(* sep.join(list)                                                          *)
RECURSIVE join(_, _)
join(list, sep) ==
    IF list = <<>> THEN <<>>
    ELSE IF Len(list) = 1 THEN list[1]
    ELSE list[1] \o <<sep>> \o join(Tail(list), sep)

UrlSeqs == UNION { [1..n -> URLS] : n \in 0..MaxUrls }

----------------------------------------------------------------------------
(* hashlib.sha256(url.encode()).hexdigest() and the cache file name.       *)

url_hash(url) == <<"sha256">> \o url

cache_file(url) == url_hash(url) \o <<".json">>

CacheFiles == { cache_file(u) : u \in URLS }

----------------------------------------------------------------------------
(* json.dump: the chunks the encoder yields for {"url": u, "markdown": m}, *)
(* each handed to f.write in turn.                                         *)

(* escape, with the escaping left out.                                     *)
escape_none(s) == s

RECURSIVE escape(_)
escape(s) ==
    IF s = <<>> THEN <<>>
    ELSE (IF Head(s) \in {DQ, BS} THEN <<BS, Head(s)>> ELSE <<Head(s)>>)
         \o escape(Tail(s))

encode_str(s) == <<DQ>> \o escape(s) \o <<DQ>>

KEY_URL == <<"u", "r", "l">>

KEY_MARKDOWN == <<"m", "a", "r", "k", "d", "o", "w", "n">>

json_chunks(obj) ==
    << <<"{">>,
       encode_str(KEY_URL), <<":", " ">>, encode_str(obj.url),
       <<",", " ">>,
       encode_str(KEY_MARKDOWN), <<":", " ">>, encode_str(obj.markdown),
       <<"}">> >>

json_dump(obj) == Concat(json_chunks(obj))

(* The file left behind when the write stops after k chunks.               *)
partial_dump(obj, k) == Concat(SubSeq(json_chunks(obj), 1, k))

(* Where the model lets the write stop: before anything reached the file   *)
(* (an error at the first flush), before the markdown value (the encoder   *)
(* rejecting the value), and before the closing brace.                     *)
DumpStops == {0, 7, 8}

----------------------------------------------------------------------------
(* json.load, for the documents json.dump above can leave in a file: an    *)
(* object of string members.  Anything else is a JSONDecodeError.          *)

Fail == [ok |-> FALSE]

RECURSIVE scan_chars(_, _, _)
scan_chars(f, i, acc) ==
    IF i > Len(f) THEN Fail
    ELSE IF f[i] = DQ THEN [ok |-> TRUE, val |-> acc, next |-> i + 1]
    ELSE IF f[i] = BS
         THEN IF i + 1 <= Len(f) /\ f[i + 1] \in {DQ, BS}
              THEN scan_chars(f, i + 2, Append(acc, f[i + 1]))
              ELSE Fail
    ELSE scan_chars(f, i + 1, Append(acc, f[i]))

scan_string(f, i) ==
    IF i <= Len(f) /\ f[i] = DQ THEN scan_chars(f, i + 1, <<>>) ELSE Fail

expect(f, i, lit) ==
    /\ i + Len(lit) - 1 <= Len(f)
    /\ SubSeq(f, i, i + Len(lit) - 1) = lit

(* members: the object parsed so far, a sequence of <<key, value>>.        *)
RECURSIVE scan_members(_, _, _)
scan_members(f, i, members) ==
    LET k == scan_string(f, i) IN
    IF ~k.ok \/ ~expect(f, k.next, <<":", " ">>) THEN Fail
    ELSE LET v == scan_string(f, k.next + 2) IN
         IF ~v.ok THEN Fail
         ELSE LET ms == Append(members, <<k.val, v.val>>) IN
              IF expect(f, v.next, <<"}">>) /\ v.next = Len(f)
              THEN [ok |-> TRUE, val |-> ms]
              ELSE IF expect(f, v.next, <<",", " ">>)
                   THEN scan_members(f, v.next + 2, ms)
                   ELSE Fail

json_load(f) ==
    IF expect(f, 1, <<"{">>) THEN scan_members(f, 2, <<>>) ELSE Fail

(* cached_data[key]: the last member with that key, KeyError if none.      *)
has_key(members, key) == \E j \in 1..Len(members) : members[j][1] = key

get_item(members, key) ==
    LET js == { j \in 1..Len(members) : members[j][1] = key }
        j == CHOOSE m \in js : \A n \in js : n <= m
    IN  members[j][2]

----------------------------------------------------------------------------
(* Exceptions.  Timeout and ConnectionError are RequestExceptions, which   *)
(* are Exceptions; HTTPError is what raise_for_status raises; Exception    *)
(* stands for any error outside the requests hierarchy.                    *)

Exceptions == {"Timeout", "ConnectionError", "HTTPError", "Exception"}

isinstance(exc, cls) ==
    \/ cls = exc
    \/ cls = "RequestException" /\ exc \in {"Timeout", "ConnectionError", "HTTPError"}
    \/ cls = "Exception"

(* except_clause, with the first clause written `except RequestException`. *)
except_clause_wide(exc) ==
    IF isinstance(exc, "RequestException") THEN "network" ELSE "unexpected"

(* The except clause that takes the exception: the first one that matches. *)
except_clause(exc) ==
    IF isinstance(exc, "Timeout") \/ isinstance(exc, "ConnectionError")
    THEN "network"
    ELSE IF isinstance(exc, "RequestException") THEN "request"
    ELSE "unexpected"

(* retry_again, with the bound off by one.                                 *)
retry_again_late(a) == a < max_retries

(* retry_again, with the test always true.                                 *)
retry_again_always(a) == TRUE

(* retry_again, with the test always false.                                *)
retry_again_never(a) == FALSE

(* if attempt < max_retries - 1                                            *)
retry_again(a) == a < max_retries - 1

(* backoff, with a constant delay.                                         *)
backoff_flat(a) == retry_delay

(* time.sleep(retry_delay * (attempt + 1))                                 *)
backoff(a) == retry_delay * (a + 1)

(* exists, testing a path that is never there.                            *)
exists_never(file) == FALSE

(* if cache_file.exists()                                                  *)
exists(file) == file # NoFile

(* cached_record, reading the wrong member.                                *)
cached_record_url(url, cached_data) ==
    [url |-> url, markdown |-> get_item(cached_data, KEY_URL)]

cached_record(url, cached_data) ==
    [url |-> url, markdown |-> get_item(cached_data, KEY_MARKDOWN)]

success_record(url, md) == [url |-> url, markdown |-> md]

failure_record(url) == [url |-> url, markdown |-> EMPTY]

----------------------------------------------------------------------------
(* src/summarize.py: the command line.                                     *)

(* Each default URL is one token: it holds no comma and no whitespace.     *)
_DEFAULT_PDFS ==
    << <<"https://arxiv.org/pdf/2501.12948">>,
       <<"https://arxiv.org/pdf/2403.04642">>,
       <<"https://arxiv.org/pdf/2501.04519">>,
       <<"https://arxiv.org/pdf/2502.11886">>,
       <<"https://arxiv.org/pdf/2505.24864">>,
       <<"https://arxiv.org/pdf/2505.03335">>,
       <<"https://arxiv.org/pdf/2503.14476">>,
       <<"https://arxiv.org/pdf/2506.04178">>,
       <<"https://arxiv.org/pdf/2410.01679">> >>

(* The values a --pdf occurrence is given in the model.                    *)
PdfArgs ==
    { <<"x">>, <<"y">>, <<"x", ",", "y">>,
      <<" ", "x", ",", " ", "y", " ">>, <<"y", ",">>,
      <<"y", " ", ",", "x">> }

Argvs == UNION { [1..n -> PdfArgs] : n \in 0..MaxFlags }

(* parser.add_argument("--pdf", type=str, default=",".join(_DEFAULT_PDFS)) *)
(* and parser.parse_args(): the argument has the default action, store, so *)
(* each occurrence replaces the value of the one before.                   *)
parse_args(av) ==
    IF av = <<>> THEN join(_DEFAULT_PDFS, ",") ELSE av[Len(av)]

(* [url.strip() for url in args.pdf.split(",")]                            *)
split_urls(pdf) ==
    LET parts == split(pdf, ",") IN [j \in 1..Len(parts) |-> strip(parts[j])]

----------------------------------------------------------------------------
(* src/summarize.py: PaperSummarizer.                                      *)

(* The decoded responses of the LLM: PaperResponse.model_dump().           *)
PaperResponses ==
    { [title |-> t, authors |-> "authors", summary |-> "summary",
       comprehension_aid |-> "comprehension_aid",
       connection_mapping |-> "connection_mapping",
       key_insights |-> "key_insights",
       concept_explanations |-> "concept_explanations",
       critical_analysis |-> "critical_analysis",
       future_work |-> "future_work"] : t \in {"title 1", "title 2"} }

(* dict.update                                                             *)
update(d, e) ==
    [k \in DOMAIN d \cup DOMAIN e |-> IF k \in DOMAIN e THEN e[k] ELSE d[k]]

(* PaperSummarizer.prompt: the dedented template around the markdown,      *)
(* stripped.                                                               *)
prompt(input) ==
    strip(<<"\n", "Extract information from the text of a paper.", "\n",
            "\n", "Text of the paper is:", "\n">>
          \o input.markdown \o <<"\n">>)

(* PaperSummarizer.parse                                                   *)
parse(input, response) == << update([url |-> input.url], response) >>

----------------------------------------------------------------------------
url == urls[idx]

Idle ==
    /\ cache = [c \in CacheFiles |-> NoFile]
    /\ cache_dir = FALSE
    /\ calls = 0
    /\ urls = <<>>
    /\ idx = 0
    /\ results = <<>>
    /\ pc = "idle"
    /\ attempt = 0
    /\ markdown = EMPTY
    /\ state = "NONE"
    /\ nfetch = 0
    /\ nconv = 0
    /\ delays = <<>>
    /\ outs = <<>>
    /\ cache0 = cache
    /\ written = [c \in CacheFiles |-> <<>>]
    /\ ends = <<>>
    /\ prompts = <<>>
    /\ summaries = <<>>
    /\ args_pdf = <<>>
    /\ pdf_urls = <<>>

Init == Idle /\ argv = <<>>

(* A call of get_pdf_markdown: mkdir(exist_ok=True), results = [].         *)
Call(us) ==
    /\ pc \in {"idle", "returned", "raised"}
    /\ calls < MaxCalls
    /\ calls' = calls + 1
    /\ urls' = us
    /\ cache_dir' = TRUE
    /\ results' = <<>>
    /\ idx' = 0
    /\ pc' = "for"
    /\ attempt' = 0
    /\ markdown' = EMPTY
    /\ state' = "NONE"
    /\ nfetch' = 0
    /\ nconv' = 0
    /\ delays' = <<>>
    /\ outs' = <<>>
    /\ cache0' = cache
    /\ ends' = <<>>
    /\ UNCHANGED << cache, written >>
    /\ UNCHANGED << driver, cli >>

(* for url in urls: the next URL, its cache file, the exists() test.       *)
NextUrl ==
    /\ pc = "for"
    /\ idx < Len(urls)
    /\ idx' = idx + 1
    /\ state' = IF exists(cache[cache_file(urls[idx + 1])])
                THEN "PENDING" ELSE "FETCHING"
    /\ nfetch' = 0
    /\ nconv' = 0
    /\ delays' = <<>>
    /\ outs' = <<>>
    /\ cache0' = cache
    /\ attempt' = 0
    /\ markdown' = EMPTY
    /\ pc' = IF exists(cache[cache_file(urls[idx + 1])]) THEN "read" ELSE "get"
    /\ UNCHANGED << cache, cache_dir, calls, urls, results, written, ends >>
    /\ UNCHANGED << driver, cli >>

(* return results                                                          *)
Return ==
    /\ pc = "for"
    /\ idx = Len(urls)
    /\ pc' = "returned"
    /\ UNCHANGED << cache, cache_dir, calls, urls, idx, results, attempt,
                    markdown, state, nfetch, nconv, delays, outs, cache0,
                    written, ends >>
    /\ UNCHANGED << driver, cli >>

(* The cache hit: open, json.load, append, continue.  Nothing catches what *)
(* json.load or the subscript raises.                                      *)
ReadCache ==
    /\ pc = "read"
    /\ LET data == json_load(cache[cache_file(url)]) IN
       IF data.ok /\ has_key(data.val, KEY_MARKDOWN)
       THEN /\ results' = Append(results, cached_record(url, data.val))
            /\ ends' = Append(ends, "CACHED")
            /\ state' = "CACHED"
            /\ pc' = "for"
       ELSE /\ pc' = "raised"
            /\ UNCHANGED << results, state, ends >>
    /\ UNCHANGED << cache, cache_dir, calls, urls, idx, attempt, markdown,
                    nfetch, nconv, delays, outs, cache0, written >>
    /\ UNCHANGED << driver, cli >>

(* What the except clauses do with an exception raised in the try body at  *)
(* `stage`.                                                                *)
Except(stage, exc) ==
    /\ outs' = Append(outs, <<stage, exc>>)
    /\ IF except_clause(exc) = "network"
       THEN IF retry_again(attempt)
            THEN /\ pc' = "sleep"
                 /\ state' = "RETRYING"
                 /\ UNCHANGED << results, attempt, ends >>
            ELSE /\ results' = Append(results, failure_record(url))
                 /\ ends' = Append(ends, "FAILED")
                 /\ state' = "FAILED"
                 \* no break: the loop goes on if range(max_retries) has more
                 /\ IF attempt + 1 < max_retries
                    THEN attempt' = attempt + 1 /\ pc' = "get"
                    ELSE attempt' = attempt /\ pc' = "for"
       ELSE /\ results' = Append(results, failure_record(url))
            /\ ends' = Append(ends, "FAILED")
            /\ state' = "FAILED"
            /\ pc' = "for"
            /\ UNCHANGED attempt

(* requests.get(url, timeout=30); response.raise_for_status()              *)
Fetch(out) ==
    /\ pc = "get"
    /\ nfetch' = nfetch + 1
    /\ IF out = "ok"
       THEN /\ pc' = "partition"
            /\ UNCHANGED << results, attempt, outs, state, ends >>
       ELSE Except("get", out)
    /\ UNCHANGED << cache, cache_dir, calls, urls, idx, markdown, nconv,
                    delays, cache0, written >>
    /\ UNCHANGED << driver, cli >>

(* markdown = partition_file(response.content, output_format="markdown")   *)
ConvertOk(md) ==
    /\ pc = "partition"
    /\ nconv' = nconv + 1
    /\ markdown' = md
    /\ pc' = "dump"
    /\ UNCHANGED << cache, cache_dir, calls, urls, idx, results, attempt,
                    state, nfetch, delays, outs, cache0, written, ends >>
    /\ UNCHANGED << driver, cli >>

ConvertRaises(exc) ==
    /\ pc = "partition"
    /\ nconv' = nconv + 1
    /\ Except("partition", exc)
    /\ UNCHANGED << cache, cache_dir, calls, urls, idx, markdown, nfetch,
                    delays, cache0, written >>
    /\ UNCHANGED << driver, cli >>

(* with open(cache_file, "w") as f: json.dump(...); results.append; break  *)
WriteCache ==
    /\ pc = "dump"
    /\ cache' = [cache EXCEPT ![cache_file(url)] =
                     json_dump([url |-> url, markdown |-> markdown])]
    /\ written' = [written EXCEPT ![cache_file(url)] = Append(@, markdown)]
    /\ results' = Append(results, success_record(url, markdown))
    /\ outs' = Append(outs, <<"dump", "ok">>)
    /\ ends' = Append(ends, "SUCCESS")
    /\ state' = "SUCCESS"
    /\ pc' = "for"
    /\ UNCHANGED << cache_dir, calls, urls, idx, attempt, markdown, nfetch,
                    nconv, delays, cache0 >>
    /\ UNCHANGED << driver, cli >>

(* open(cache_file, "w") raises: no file is created.                       *)
OpenRaises ==
    /\ pc = "dump"
    /\ Except("open", "Exception")
    /\ UNCHANGED << cache, cache_dir, calls, urls, idx, markdown, nfetch,
                    nconv, delays, cache0, written >>
    /\ UNCHANGED << driver, cli >>

(* json.dump raises after k chunks: open has created the file and the      *)
(* with statement closes it with what was written.                         *)
DumpRaises(k) ==
    /\ pc = "dump"
    /\ k < Len(json_chunks([url |-> url, markdown |-> markdown]))
    /\ cache' = [cache EXCEPT ![cache_file(url)] =
                     partial_dump([url |-> url, markdown |-> markdown], k)]
    /\ Except("dump", "Exception")
    /\ UNCHANGED << cache_dir, calls, urls, idx, markdown, nfetch, nconv,
                    delays, cache0, written >>
    /\ UNCHANGED << driver, cli >>

(* time.sleep(...); continue                                               *)
Backoff ==
    /\ pc = "sleep"
    /\ delays' = Append(delays, backoff(attempt))
    /\ IF attempt + 1 < max_retries
       THEN attempt' = attempt + 1 /\ pc' = "get" /\ state' = "FETCHING"
       ELSE attempt' = attempt /\ pc' = "for" /\ UNCHANGED state
    /\ UNCHANGED << cache, cache_dir, calls, urls, idx, results, markdown,
                    nfetch, nconv, outs, cache0, written, ends >>
    /\ UNCHANGED << driver, cli >>

(* summarizer(texts): the framework takes the records of texts in order;   *)
(* for each it builds the prompt, calls the LLM once and hands the decoded *)
(* response to parse.                                                      *)
Summarize(response) ==
    /\ pc = "returned"
    /\ Len(prompts) < Len(results)
    /\ LET input == results[Len(prompts) + 1] IN
       /\ prompts' = Append(prompts, prompt(input))
       /\ summaries' = summaries \o parse(input, response)
    /\ UNCHANGED << pc, loader, cli >>

(* push_to_viewer(summaries_response.dataset); print: the script ends.     *)
Push ==
    /\ pc = "returned"
    /\ Len(prompts) = Len(results)
    /\ pc' = "done"
    /\ UNCHANGED << loader, driver, cli >>

(* args = parser.parse_args()                                              *)
ParseArgs ==
    /\ pc = "idle"
    /\ args_pdf' = parse_args(argv)
    /\ pc' = "parsed"
    /\ UNCHANGED << loader, driver, argv, pdf_urls >>

(* pdf_urls = [url.strip() for url in args.pdf.split(",")]                 *)
SplitUrls ==
    /\ pc = "parsed"
    /\ pdf_urls' = split_urls(args_pdf)
    /\ pc' = "split"
    /\ UNCHANGED << loader, driver, argv, args_pdf >>

Next ==
    \/ \E us \in UrlSeqs : Call(us)
    \/ NextUrl
    \/ Return
    \/ ReadCache
    \/ \E out \in {"ok"} \cup Exceptions : Fetch(out)
    \/ \E md \in Markdowns : ConvertOk(md)
    \/ \E exc \in Exceptions : ConvertRaises(exc)
    \/ WriteCache
    \/ OpenRaises
    \/ \E k \in DumpStops : DumpRaises(k)
    \/ Backoff

Spec == Init /\ [][Next]_vars

(* The summarizer alone, on the lists get_pdf_markdown can return: for     *)
(* each URL a failure record, or the record of a hit or of a success with  *)
(* whatever markdown the cache or the conversion gave.                     *)
Texts ==
    UNION { [1..n -> { [rec |-> failure_record(u), end |-> "FAILED"]
                         : u \in URLS }
                     \cup { [rec |-> success_record(u, md), end |-> e]
                              : u \in URLS, md \in Markdowns,
                                e \in {"CACHED", "SUCCESS"} }]
            : n \in 0..MaxUrls }

DriverInit ==
    /\ cache = [c \in CacheFiles |-> NoFile]
    /\ cache_dir = TRUE
    /\ calls = 1
    /\ \E texts \in Texts :
          /\ urls = [j \in 1..Len(texts) |-> texts[j].rec.url]
          /\ results = [j \in 1..Len(texts) |-> texts[j].rec]
          /\ ends = [j \in 1..Len(texts) |-> texts[j].end]
    /\ idx = Len(urls)
    /\ pc = "returned"
    /\ attempt = 0
    /\ markdown = EMPTY
    /\ state = "NONE"
    /\ nfetch = 0
    /\ nconv = 0
    /\ delays = <<>>
    /\ outs = <<>>
    /\ cache0 = cache
    /\ written = [c \in CacheFiles |-> <<>>]
    /\ prompts = <<>>
    /\ summaries = <<>>
    /\ argv = <<>>
    /\ args_pdf = <<>>
    /\ pdf_urls = <<>>

DriverNext ==
    \/ \E response \in PaperResponses : Summarize(response)
    \/ Push

DriverSpec == DriverInit /\ [][DriverNext]_vars

(* The command line alone: any --pdf occurrences, then parse_args and the  *)
(* split.                                                                  *)
CliInit == Idle /\ argv \in Argvs

CliNext == ParseArgs \/ SplitUrls

CliSpec == CliInit /\ [][CliNext]_vars

(* A step of the call in progress.  Every requests.get, partition_file,    *)
(* file operation and sleep returns or raises, so a call that can take a   *)
(* step takes it; nothing obliges anyone to call get_pdf_markdown again.   *)
Step ==
    \/ NextUrl
    \/ Return
    \/ ReadCache
    \/ \E out \in {"ok"} \cup Exceptions : Fetch(out)
    \/ \E md \in Markdowns : ConvertOk(md)
    \/ \E exc \in Exceptions : ConvertRaises(exc)
    \/ WriteCache
    \/ OpenRaises
    \/ \E k \in DumpStops : DumpRaises(k)
    \/ Backoff

FairSpec == Spec /\ WF_vars(Step)

----------------------------------------------------------------------------
(* Properties.                                                             *)

(* The current URL has reached the end of its processing.                  *)
Done == idx > 0 /\ pc \in {"for", "returned"}

(* The cache file of the current URL, before and after its processing.     *)
file_before == cache0[cache_file(url)]

file_now == cache[cache_file(url)]

AllOuts(o) == outs # <<>> /\ \A j \in 1..Len(outs) : outs[j] = o

(* C1: get_pdf_markdown never raises: whatever the cache read, the fetch,  *)
(* the conversion and the cache write do, the call returns normally.       *)
C1_NeverRaises == pc # "raised"

C3_CacheHitNoNetwork ==
    \A m \in Markdowns :
        (idx > 0 /\ file_before = json_dump([url |-> url, markdown |-> m]))
        => /\ nfetch = 0
           /\ nconv = 0
           /\ pc \in {"read", "for", "returned"}
           /\ Done => /\ state = "CACHED"
                      /\ results[idx] = [url |-> url, markdown |-> m]

C3_Witness ==
    /\ Done
    /\ state = "CACHED"
    /\ file_before = json_dump([url |-> url, markdown |-> <<BS, "a">>])
    /\ results[idx].markdown = <<BS, "a">>

(* C4: the first success for a URL without a cache file creates the one    *)
(* entry {url, markdown} with the markdown of the output record, and a     *)
(* later processing of the URL is a hit returning that markdown with no    *)
(* fetch.                                                                  *)
C4_SuccessThenHit ==
    /\ \A c \in CacheFiles : Len(written[c]) <= 1
    /\ (Done /\ state = "SUCCESS")
       => /\ file_before = NoFile
          /\ written[cache_file(url)] = << results[idx].markdown >>
          /\ LET data == json_load(file_now) IN
             /\ data.ok
             /\ data.val = << <<KEY_URL, url>>,
                              <<KEY_MARKDOWN, results[idx].markdown>> >>
    /\ (idx > 0 /\ state # "SUCCESS" /\ written[cache_file(url)] # <<>>)
       => /\ nfetch = 0
          /\ pc \in {"read", "for", "returned"}
          /\ Done => /\ state = "CACHED"
                     /\ results[idx].markdown = written[cache_file(url)][1]

C4_Witness ==
    /\ calls = 2
    /\ pc = "returned"
    /\ state = "CACHED"
    /\ written[cache_file(url)] = << <<"a", DQ>> >>
    /\ results[idx].markdown = <<"a", DQ>>

(* C5: no partial cache writes: every cache file holds a complete          *)
(* {url, markdown} record, and a URL that ends with a failure record has   *)
(* left the cache as it found it.                                          *)
C5_NoPartialWrite ==
    /\ \A u \in URLS :
          \/ cache[cache_file(u)] = NoFile
          \/ \E m \in Markdowns :
                cache[cache_file(u)] = json_dump([url |-> u, markdown |-> m])
    /\ (Done /\ state = "FAILED") => cache = cache0

(* C6: a URL without a cache file whose every fetch times out is fetched   *)
(* exactly 3 times, with sleeps of 1 and then 2 seconds between the        *)
(* attempts and none after the last, and ends with a failure record and no *)
(* cache file.                                                             *)
C6_TimeoutThreeAttempts ==
    (Done /\ AllOuts(<<"get", "Timeout">>))
    => /\ file_before = NoFile
       /\ nfetch = 3
       /\ Len(outs) = 3
       /\ nconv = 0
       /\ delays = <<1, 2>>
       /\ \A j \in 1..(Len(delays) - 1) : delays[j] < delays[j + 1]
       /\ state = "FAILED"
       /\ results[idx] = [url |-> url, markdown |-> EMPTY]
       /\ file_now = NoFile
       /\ cache = cache0

C6_Witness ==
    /\ pc = "returned"
    /\ AllOuts(<<"get", "Timeout">>)
    /\ nfetch = 3
    /\ results[idx].markdown = EMPTY

(* C7: a fetch that ends in a non-network request failure is the last      *)
(* attempt for its URL: no sleep follows, no cache file is written, the    *)
(* record is a failure record; on the first attempt that is one fetch and  *)
(* no sleep at all.                                                        *)
C7_RequestErrorNoRetry ==
    \A j \in 1..Len(outs) :
        outs[j] = <<"get", "HTTPError">>
        => /\ j = Len(outs)
           /\ Done
           /\ state = "FAILED"
           /\ nfetch = j
           /\ Len(delays) = j - 1
           /\ results[idx] = [url |-> url, markdown |-> EMPTY]
           /\ file_now = NoFile
           /\ cache = cache0
           /\ j = 1 => (nfetch = 1 /\ delays = <<>>)

C7_Witness ==
    /\ Done
    /\ outs = << <<"get", "HTTPError">> >>
    /\ nfetch = 1
    /\ results[idx].markdown = EMPTY

(* C8: a conversion failure, of whatever kind, ends the processing of its  *)
(* URL at once with a failure record: no sleep and no further fetch.       *)
C8_ConversionFailureImmediate ==
    \A j \in 1..Len(outs) :
        outs[j][1] = "partition"
        => /\ j = Len(outs)
           /\ Done
           /\ state = "FAILED"
           /\ results[idx] = [url |-> url, markdown |-> EMPTY]

(* C9: a cache file that exists is never rewritten or deleted, and a URL   *)
(* whose cache file exists when it is taken up is never fetched or         *)
(* converted.                                                              *)
C9_CacheImmutable ==
    /\ [][\A c \in CacheFiles : cache[c] # NoFile => cache'[c] = cache[c]]_vars
    /\ [](idx > 0 /\ file_before # NoFile
          => nfetch = 0 /\ nconv = 0 /\ file_now = file_before)

C9_Witness ==
    /\ calls = 1
    /\ pc = "returned"
    /\ idx = 2
    /\ urls[1] = urls[2]
    /\ state = "CACHED"
    /\ file_before # NoFile

(* C10: a record carries the empty markdown exactly when its URL ended in  *)
(* FAILED.                                                                 *)
C10_EmptyIffFailed ==
    Done => (results[idx].markdown = EMPTY <=> state = "FAILED")

Terminal == {"CACHED", "SUCCESS", "FAILED"}

NetworkErrors == {"Timeout", "ConnectionError"}

InProgress == pc \in {"read", "get", "partition", "dump", "sleep"}

(* The moves of the per-URL state machine.                                 *)
Moves ==
    { <<"PENDING", "CACHED">>, <<"FETCHING", "SUCCESS">>,
      <<"FETCHING", "RETRYING">>, <<"FETCHING", "FAILED">>,
      <<"RETRYING", "FETCHING">> }

(* C13: per URL at most 3 attempts are made, an attempt follows another    *)
(* only when that one ended in a Timeout or ConnectionError, the URL ends  *)
(* in exactly one of CACHED, SUCCESS, FAILED with one record, and an       *)
(* attempt that succeeds after k-1 network failures ends the URL in        *)
(* SUCCESS with the converted markdown returned and cached and k fetches   *)
(* made.                                                                   *)
C13_StateMachine ==
    /\ [](idx > 0 =>
          /\ nfetch <= 3
          /\ Len(outs) <= 3
          /\ nfetch \in {Len(outs), Len(outs) + 1}
          /\ \A j \in 1..Len(outs) :
                j < nfetch => (outs[j][2] \in NetworkErrors /\ j < 3)
          /\ Done => /\ state \in Terminal
                     /\ Len(results) = idx
                     /\ ends[idx] = state
          /\ InProgress => /\ state \notin Terminal
                           /\ Len(results) = idx - 1
          /\ (outs # <<>> /\ outs[Len(outs)] = <<"dump", "ok">>)
             => /\ Done
                /\ state = "SUCCESS"
                /\ nfetch = Len(outs)
                /\ Len(delays) = Len(outs) - 1
                /\ results[idx] = [url |-> url, markdown |-> markdown]
                /\ file_now = json_dump(results[idx]))
    /\ [][(idx' = idx /\ calls' = calls /\ state' # state)
          => <<state, state'>> \in Moves]_vars

C13_Witness ==
    /\ Done
    /\ outs = << <<"get", "Timeout">>, <<"get", "ConnectionError">>,
                 <<"dump", "ok">> >>
    /\ state = "SUCCESS"
    /\ nfetch = 3
    /\ results[idx].markdown = <<BS, "a">>

(* C14: the URLs are processed one after the other in input order: the     *)
(* loop moves to the next URL only from the loop head, with the record of  *)
(* the current URL appended and the URL in a terminal state, and every     *)
(* fetch, conversion, cache write and sleep belongs to the URL whose       *)
(* record is not yet appended.                                             *)
C14_Sequential ==
    /\ [][(idx' # idx /\ idx' # 0)
          => /\ idx' = idx + 1
             /\ pc = "for"
             /\ Len(results) = idx
             /\ idx > 0 => state \in Terminal]_vars
    /\ [][(calls' = calls /\ idx' = idx
           /\ (nfetch' # nfetch \/ nconv' # nconv \/ cache' # cache
               \/ delays' # delays))
          => /\ idx > 0
             /\ Len(results) = idx - 1
             /\ state \notin Terminal]_vars
    /\ [][pc = "sleep" => (idx' = idx /\ results' = results /\ cache' = cache)]_vars

C14_Witness ==
    /\ pc = "sleep"
    /\ idx = 1
    /\ Len(urls) = 2
    /\ results = <<>>
    /\ Len(delays) = 1

(* C15: the processing of a URL touches no cache file but its own and no   *)
(* record appended before, and a failure of one URL leaves every URL with  *)
(* a different key with the outcome it would have had: when the call ends, *)
(* each of them has its record.                                            *)
C15_Isolated ==
    /\ idx > 0 => \A v \in URLS \ {url} :
                     cache[cache_file(v)] = cache0[cache_file(v)]
    /\ Len(ends) = Len(results)
    /\ pc \in {"returned", "raised"}
       => \A j \in 1..Len(urls) : urls[j] # url => j <= Len(results)

(* C16: in a batch, an occurrence of a URL after a successful one is a     *)
(* cache hit with no fetch and the same markdown, and an occurrence after  *)
(* failed ones only starts a fresh retry loop, failures not being cached.  *)
C16_Duplicates ==
    idx > 0 =>
        LET prev == { j \in 1..(idx - 1) : urls[j] = url } IN
        /\ \A j \in prev :
              ends[j] \in {"SUCCESS", "CACHED"}
              => /\ nfetch = 0
                 /\ pc \in {"read", "for", "returned"}
                 /\ Done => /\ state = "CACHED"
                            /\ results[idx].markdown = results[j].markdown
        /\ (prev # {} /\ \A j \in prev : ends[j] = "FAILED")
           => /\ file_before = NoFile
              /\ pc \notin {"read", "raised"}
              /\ state # "CACHED"

(* C17: every call of get_pdf_markdown eventually returns, having made at  *)
(* most 3 fetches and 2 sleeps for each URL.                               *)
C17_Terminates ==
    /\ [](nfetch <= 3 /\ Len(delays) <= 2)
    /\ (pc = "for") ~> (pc = "returned")

(* What the documented command line hands to the loader: the default list  *)
(* without --pdf, else the URLs of every occurrence, in order.             *)
RECURSIVE all_urls(_)
all_urls(av) ==
    IF av = <<>> THEN <<>> ELSE split_urls(Head(av)) \o all_urls(Tail(av))

(* C11: the list handed to the loader is the default list when no --pdf is *)
(* given, and otherwise holds the URLs of all --pdf occurrences, each      *)
(* split at the commas and stripped, in order.                             *)
C11_AllPdfFlags ==
    pc = "split" =>
        pdf_urls = IF argv = <<>> THEN _DEFAULT_PDFS ELSE all_urls(argv)

(* C12: the LLM is invoked once for each record that ended in CACHED or    *)
(* SUCCESS and for no record that ended in FAILED, and each summary        *)
(* carries the url of its input record.                                    *)
C12_SummaryPerLoaded ==
    pc = "done" =>
        LET Loaded(j) == ends[j] # "FAILED"
            loaded == SelectSeq([j \in 1..Len(results) |-> j], Loaded)
        IN  /\ Len(prompts) = Len(loaded)
            /\ Len(summaries) = Len(loaded)
            /\ \A k \in 1..Len(loaded) :
                  /\ prompts[k] = prompt(results[loaded[k]])
                  /\ summaries[k].url = results[loaded[k]].url

====
